---------------------------- MODULE Spec2Model ----------------------------
(***************************************************************************)
(* Model of proxx_game.py: the Board engine (hole placement, adjacency     *)
(* counts, flood-fill reveal, win/loss status) and the coordinate input    *)
(* of the command-line loop.                                               *)
(*                                                                         *)
(* A Coord is a record [x, y].  The board is a function from the in-range  *)
(* coordinates to Cell records [is_hole, holes_around, is_opened]; it      *)
(* stands for the list of rows self.board[y][x].                           *)
(***************************************************************************)
EXTENDS Integers, Sequences, FiniteSets, TLC

\* ------------------------------------------------------------------ bounds
\* largest size handed to the Board constructor
MaxSize == 4
\* largest accepted holes_num whose layouts are enumerated
MaxHoles == 2
\* largest number of click_on calls made after construction
MaxClicks == 2
\* largest holes_num the command-line loop is run with
MaxMainHoles == 1
\* largest number of turns of the command-line loop
MaxMainClicks == 1

\* ------------------------------------------------------- program constants
SMALLEST_BOARD_SIZE == 3

IN_GAME == "IN_GAME"
LOST == "LOST"
WIN == "WIN"
GameStatus == {IN_GAME, LOST, WIN}

\* ------------------------------------------------------------- data types
Coord(cx, cy) == [x |-> cx, y |-> cy]

\* Cell.__init__: a fresh cell is no hole, has count 0 and is closed
Cell == [is_hole |-> FALSE, holes_around |-> 0, is_opened |-> FALSE]

\* the coordinates of a w x h grid
CoordsOf(w, h) == {Coord(cx, cy) : cx \in 0..(w - 1), cy \in 0..(h - 1)}

\* Board.neighbors: relative coordinates, x outer and y inner, (0,0) left out
neighbors ==
    << Coord(-1, -1), Coord(-1, 0), Coord(-1, 1), Coord(0, -1),
       Coord(0, 1), Coord(1, -1), Coord(1, 0), Coord(1, 1) >>

\* ------------------------------------------------------- list indexing
\* A Python list of length n accepts the indices -n .. n-1; a negative
\* index counts from the end, any other index raises IndexError.
IndexOk(i, n) == -n <= i /\ i < n
IndexOf(i, n) == IF i < 0 THEN i + n ELSE i

\* Board.at raises IndexError exactly when one of the two indexings does
AtRaises(b, coord) == ~(IndexOk(coord.y, b.height) /\ IndexOk(coord.x, b.width))

\* Board.at: the cell object self.board[coord.y][coord.x], named by its place
at(b, coord) == Coord(IndexOf(coord.x, b.width), IndexOf(coord.y, b.height))

\* --------------------------------------------------------- HolesGenerator
RECURSIVE KSubsets(_, _)
\* random.sample(population, k) as the set of its possible results, the
\* subsets of k elements; the caller only iterates the returned list, so its
\* order is not kept
KSubsets(S, k) ==
    IF k = 0 THEN {{}}
    ELSE IF Cardinality(S) < k THEN {}
    ELSE IF Cardinality(S) = k THEN {S}
    ELSE LET e == CHOOSE e \in S : TRUE
             rest == S \ {e}
         IN  KSubsets(rest, k) \cup {T \cup {e} : T \in KSubsets(rest, k - 1)}

\* random.sample raises ValueError for a negative or too large k
SampleRaises(S, k) == k < 0 \/ k > Cardinality(S)

\* mutant: the skipped cell stays among the places
available_places_keeps_skip(gen, skip_cell) == CoordsOf(gen.width, gen.height)

\* HolesGenerator.generate_holes: the places that may be sampled
available_places(gen, skip_cell) == CoordsOf(gen.width, gen.height) \ {skip_cell}

\* mutant: sampling with replacement, the same place may be drawn twice
generate_holes_with_repeats(gen, skip_cell) ==
    UNION {KSubsets(available_places(gen, skip_cell), k) :
              k \in (IF gen.holes_num = 0 THEN 0 ELSE 1)..gen.holes_num}

\* HolesGenerator.generate_holes: every list of holes it can return
generate_holes(gen, skip_cell) == KSubsets(available_places(gen, skip_cell), gen.holes_num)

\* HolesGenerator.__init__
HolesGenerator(size, holes_num) == [width |-> size, height |-> size, holes_num |-> holes_num]

\* ------------------------------------------------------------------ Board
\* mutant: the lower limits are off by one, the index -1 wraps around
_get_adjacent_coords_wraps(b, coord) ==
    LET adj(i) == Coord(neighbors[i].x + coord.x, neighbors[i].y + coord.y)
        keep(c) == ~(c.x < -1 \/ c.x >= b.width \/ c.y < -1 \/ c.y >= b.height)
    IN  SelectSeq([i \in 1..Len(neighbors) |-> adj(i)], keep)

\* Board._get_adjacent_coords: the neighbours inside the board, in order
_get_adjacent_coords(b, coord) ==
    LET adj(i) == Coord(neighbors[i].x + coord.x, neighbors[i].y + coord.y)
        keep(c) == ~(c.x < 0 \/ c.x >= b.width \/ c.y < 0 \/ c.y >= b.height)
    IN  SelectSeq([i \in 1..Len(neighbors) |-> adj(i)], keep)

\* the set of the coordinates of a sequence
Range(s) == {s[i] : i \in 1..Len(s)}

\* Board._generate_holes: mark every generated hole
_generate_holes(b, holes) ==
    LET hole_cells == {at(b, h) : h \in holes}
    IN  [b EXCEPT !.board = [c \in DOMAIN b.board |->
            IF c \in hole_cells
            THEN [b.board[c] EXCEPT !.is_hole = TRUE]
            ELSE b.board[c]]]

\* Board._generate_holes_adjacent: count the holes around every non-hole cell
_generate_holes_adjacent(b) ==
    [b EXCEPT !.board = [c \in DOMAIN b.board |->
        IF b.board[c].is_hole
        THEN b.board[c]
        ELSE [b.board[c] EXCEPT !.holes_around =
                Cardinality({a \in Range(_get_adjacent_coords(b, c)) : b.board[at(b, a)].is_hole})]]]

\* mutant: the decrement is made on the cell's holes_around, not on cells_to_open
_open_cell_lowers_holes_around(b, cell) ==
    IF b.board[cell].is_opened
    THEN b
    ELSE [b EXCEPT !.board[cell].is_opened = TRUE,
                   !.board[cell].holes_around = @ - 1,
                   !.status = IF b.cells_to_open = 0 THEN WIN ELSE @]

\* mutant: no test of is_opened, a cell opened again is counted again
_open_cell_recounts(b, cell) ==
    LET left == b.cells_to_open - 1
    IN  [b EXCEPT !.board[cell].is_opened = TRUE,
                  !.cells_to_open = left,
                  !.status = IF left = 0 THEN WIN ELSE @]

\* Board._open_cell
_open_cell(b, cell) ==
    IF b.board[cell].is_opened
    THEN b
    ELSE LET left == b.cells_to_open - 1
         IN  [b EXCEPT !.board[cell].is_opened = TRUE,
                       !.cells_to_open = left,
                       !.status = IF left = 0 THEN WIN ELSE @]

\* mutant: no test of is_hole, a hole next to the reveal is enqueued
AppendAdjacent_takes_holes(b, q, adjacent) ==
    LET wanted(c) == ~b.board[at(b, c)].is_opened
    IN  q \o SelectSeq(adjacent, wanted)

\* mutant: break for continue at an opened neighbour, the neighbours after
\* it are not looked at
AppendAdjacent_breaks(b, q, adjacent) ==
    LET wanted(c) == ~b.board[at(b, c)].is_hole /\ ~b.board[at(b, c)].is_opened
        stops == {i \in 1..Len(adjacent) :
                     ~b.board[at(b, adjacent[i])].is_hole /\ b.board[at(b, adjacent[i])].is_opened}
        last == IF stops = {} THEN Len(adjacent)
                ELSE (CHOOSE i \in stops : \A j \in stops : i <= j) - 1
    IN  q \o SelectSeq(SubSeq(adjacent, 1, last), wanted)

\* the for loop of Board._open_cells over the adjacent coordinates: the
\* loop writes no cell, so each coordinate is tested against the same board
AppendAdjacent(b, q, adjacent) ==
    LET wanted(c) == ~b.board[at(b, c)].is_hole /\ ~b.board[at(b, c)].is_opened
    IN  q \o SelectSeq(adjacent, wanted)

\* mutant: the coordinate is read at the left end and removed only at the end
\* of the turn, which continue skips at a numbered cell
OpenCellsStep_skips_pop(s) ==
    LET coord == Head(s.queue)
        cell == at(s.b, coord)
        opened == _open_cell(s.b, cell)
    IN  IF opened.board[cell].holes_around # 0
        THEN [b |-> opened, queue |-> s.queue]
        ELSE [b |-> opened,
              queue |-> AppendAdjacent(opened, Tail(s.queue), _get_adjacent_coords(opened, coord))]

\* one turn of the while loop of Board._open_cells on [b, queue]
OpenCellsStep(s) ==
    LET coord == Head(s.queue)
        cell == at(s.b, coord)
        opened == _open_cell(s.b, cell)
    IN  IF opened.board[cell].holes_around # 0
        THEN [b |-> opened, queue |-> Tail(s.queue)]
        ELSE [b |-> opened,
              queue |-> AppendAdjacent(opened, Tail(s.queue), _get_adjacent_coords(opened, coord))]

RECURSIVE OpenCellsTurns(_, _)
\* n turns of the while loop of Board._open_cells, fewer when the queue
\* empties first; the turns are split in halves to keep the evaluation shallow
OpenCellsTurns(s, n) ==
    IF n = 0 \/ s.queue = << >> THEN s
    ELSE IF n = 1 THEN OpenCellsStep(s)
    ELSE OpenCellsTurns(OpenCellsTurns(s, n \div 2), n - n \div 2)

RECURSIVE OpenCellsLoop(_)
\* the while loop of Board._open_cells, run until the queue is empty: as
\* many turns as the queue is long, again and again
OpenCellsLoop(s) ==
    IF s.queue = << >> THEN s.b ELSE OpenCellsLoop(OpenCellsTurns(s, Len(s.queue)))

\* Board._open_cells
_open_cells(b, coord) == OpenCellsLoop([b |-> b, queue |-> << coord >>])

\* mutant: the clicked hole is marked opened
click_on_opens_hole(b, coord) ==
    IF b.board[at(b, coord)].is_hole
    THEN [b EXCEPT !.status = LOST, !.board[at(b, coord)].is_opened = TRUE]
    ELSE _open_cells(b, coord)

\* Board.click_on, for a coordinate Board.at accepts
click_on(b, coord) ==
    IF b.board[at(b, coord)].is_hole
    THEN [b EXCEPT !.status = LOST]
    ELSE _open_cells(b, coord)


\* mutant: cells_to_open starts at the number of all cells, holes included
NewBoard_counts_all(size, holes_num, holes) ==
    LET fresh == [width |-> size, height |-> size, status |-> IN_GAME,
                  cells_to_open |-> size * size,
                  board |-> [c \in CoordsOf(size, size) |-> Cell]]
    IN  _generate_holes_adjacent(_generate_holes(fresh, holes))

\* Board.__init__ after its two parameter checks: fields, grid, holes,
\* counts; the click on first_coord follows in Construct
NewBoard(size, holes_num, holes) ==
    LET fresh == [width |-> size, height |-> size, status |-> IN_GAME,
                  cells_to_open |-> size * size - holes_num,
                  board |-> [c \in CoordsOf(size, size) |-> Cell]]
    IN  _generate_holes_adjacent(_generate_holes(fresh, holes))

\* Board.__init__: the first check raises ValueError
SizeTooSmall(size) == size <= SMALLEST_BOARD_SIZE

\* mutant: < for <= in the second check
TooManyHoles_strict(size, holes_num) ==
    size * size - SMALLEST_BOARD_SIZE * SMALLEST_BOARD_SIZE < holes_num

\* Board.__init__: the second check raises ValueError
TooManyHoles(size, holes_num) ==
    size * size - SMALLEST_BOARD_SIZE * SMALLEST_BOARD_SIZE <= holes_num

\* ------------------------------------------------------------------ state
VARIABLES
    phase,          \* "new": no Board yet; "built": __init__ returned; "failed": it raised
    raised,         \* the exception the last call ended in, or "none"
    width, height,  \* Board.width, Board.height
    status,         \* Board.status
    cells_to_open,  \* Board.cells_to_open
    board,          \* Board.board
    ctor,           \* the arguments the constructor was called with
    clicks,         \* number of click_on calls made after construction
    handed,         \* what get_coord_to_open returned last, in main
    said,           \* what the last turn of get_coord_to_open's loop printed
    pc,             \* "idle", or "loop": a call is inside the while loop of _open_cells
    queue,          \* the deque of _open_cells while the loop runs
    called          \* the Board and the coordinate the running _open_cells was called with

vars == << phase, raised, width, height, status, cells_to_open, board, ctor, clicks,
           handed, said, pc, queue, called >>

\* what is only written when _open_cells is followed turn by turn
loop == << pc, queue, called >>

\* the Board object as one record
Self == [width |-> width, height |-> height, status |-> status,
         cells_to_open |-> cells_to_open, board |-> board]

\* the fields of the Board object after a call
SetSelf(b) ==
    /\ width' = b.width
    /\ height' = b.height
    /\ status' = b.status
    /\ cells_to_open' = b.cells_to_open
    /\ board' = b.board

NoCoord == Coord(-100, -100)
NoArgs == [size |-> -1, holes_num |-> -1, first_coord |-> NoCoord]
NoCall == [b |-> << >>, coord |-> NoCoord, popleft |-> TRUE]

Init ==
    /\ phase = "new"
    /\ raised = "none"
    /\ width = 0
    /\ height = 0
    /\ status = "NONE"
    /\ cells_to_open = 0
    /\ board = << >>
    /\ ctor = NoArgs
    /\ clicks = 0
    /\ handed = NoCoord
    /\ said = {}
    /\ pc = "idle"
    /\ queue = << >>
    /\ called = NoCall

\* ---------------------------------------------------------------- inputs
\* sizes handed to the constructor
SizeArgs == 0..MaxSize

\* hole counts handed to the constructor: -1, the counts up to MaxHoles, and
\* the counts that leave fewer than 10 cells free
HolesArgs(size) == {n \in -1..(size * size) : n <= MaxHoles \/ size * size - n < 10}

\* first coordinates handed to the constructor
FirstArgs(size) == IF size = 0 THEN {Coord(0, 0)} ELSE CoordsOf(size, size)

\* indices tried on a list of length n: each of its own, the first one past
\* its end (rejected), -1 (the last element) and -n-1 (rejected)
IndexArgs(n) == (0..n) \cup {-1, -n - 1}

\* coordinates handed to click_on
ClickArgs == {Coord(cx, cy) : cx \in IndexArgs(width), cy \in IndexArgs(height)}

InBounds(coord) == coord \in CoordsOf(width, height)

\* ---------------------------------------------------------------- actions
\* The actions of the Board leave handed and said to their caller.
\* Board(size, holes_num, HolesGenerator(size, holes_num), first_coord)
\* raises ValueError in one of the two parameter checks: no Board is made
ConstructRejected(size, holes_num, first_coord) ==
    /\ phase = "new"
    /\ SizeTooSmall(size) \/ TooManyHoles(size, holes_num)
    /\ phase' = "failed"
    /\ raised' = "ValueError"
    /\ ctor' = [size |-> size, holes_num |-> holes_num, first_coord |-> first_coord]
    /\ UNCHANGED << width, height, status, cells_to_open, board, clicks >>

\* the same call passes the checks and random.sample raises ValueError
ConstructSampleFails(size, holes_num, first_coord) ==
    /\ phase = "new"
    /\ ~SizeTooSmall(size)
    /\ ~TooManyHoles(size, holes_num)
    /\ SampleRaises(available_places(HolesGenerator(size, holes_num), first_coord), holes_num)
    /\ phase' = "failed"
    /\ raised' = "ValueError"
    /\ ctor' = [size |-> size, holes_num |-> holes_num, first_coord |-> first_coord]
    /\ UNCHANGED << width, height, status, cells_to_open, board, clicks >>

\* the same call builds the board and clicks on first_coord
Construct(size, holes_num, first_coord) ==
    /\ phase = "new"
    /\ ~SizeTooSmall(size)
    /\ ~TooManyHoles(size, holes_num)
    /\ ~SampleRaises(available_places(HolesGenerator(size, holes_num), first_coord), holes_num)
    /\ ~AtRaises([width |-> size, height |-> size], first_coord)
    /\ \E holes \in generate_holes(HolesGenerator(size, holes_num), first_coord) :
          \E after \in {click_on(NewBoard(size, holes_num, holes), first_coord)} :
             SetSelf(after)
    /\ phase' = "built"
    /\ raised' = "none"
    /\ ctor' = [size |-> size, holes_num |-> holes_num, first_coord |-> first_coord]
    /\ UNCHANGED clicks

\* board.click_on(coord) returns
ClickOn(coord) ==
    /\ phase = "built"
    /\ ~AtRaises(Self, coord)
    /\ \E after \in {click_on(Self, coord)} : SetSelf(after)
    /\ raised' = "none"
    /\ clicks' = clicks + 1
    /\ UNCHANGED << phase, ctor >>

\* board.click_on(coord) raises IndexError in Board.at, before any write
ClickOnRaises(coord) ==
    /\ phase = "built"
    /\ AtRaises(Self, coord)
    /\ raised' = "IndexError"
    /\ clicks' = clicks + 1
    /\ UNCHANGED << phase, ctor, width, height, status, cells_to_open, board >>

\* the same call builds the board and Board.at raises IndexError in the click
\* on first_coord: no Board is made
ConstructIndexError(size, holes_num, first_coord) ==
    /\ phase = "new"
    /\ ~SizeTooSmall(size)
    /\ ~TooManyHoles(size, holes_num)
    /\ ~SampleRaises(available_places(HolesGenerator(size, holes_num), first_coord), holes_num)
    /\ AtRaises([width |-> size, height |-> size], first_coord)
    /\ phase' = "failed"
    /\ raised' = "IndexError"
    /\ ctor' = [size |-> size, holes_num |-> holes_num, first_coord |-> first_coord]
    /\ UNCHANGED << width, height, status, cells_to_open, board, clicks >>

\* the calls a program can make on the Board, with every input tried
BoardRejects ==
    /\ phase = "new"
    /\ \E size \in SizeArgs : \E holes_num \in HolesArgs(size) : \E first_coord \in FirstArgs(size) :
          ConstructRejected(size, holes_num, first_coord)
    /\ UNCHANGED << handed, said, pc, queue, called >>

BoardSampleFails ==
    /\ phase = "new"
    /\ \E size \in SizeArgs : \E holes_num \in HolesArgs(size) : \E first_coord \in FirstArgs(size) :
          ConstructSampleFails(size, holes_num, first_coord)
    /\ UNCHANGED << handed, said, pc, queue, called >>

BoardBuilt ==
    \E size \in SizeArgs : \E first_coord \in FirstArgs(size) :
       /\ phase = "new"
       /\ \E holes_num \in HolesArgs(size) : Construct(size, holes_num, first_coord)
       /\ UNCHANGED << handed, said, pc, queue, called >>

Click ==
    /\ phase = "built"
    /\ clicks < MaxClicks
    /\ \E coord \in ClickArgs : ClickOn(coord)
    /\ UNCHANGED << handed, said, pc, queue, called >>

ClickFails ==
    /\ phase = "built"
    /\ clicks < MaxClicks
    /\ \E coord \in ClickArgs : ClickOnRaises(coord)
    /\ UNCHANGED << handed, said, pc, queue, called >>

Next == BoardRejects \/ BoardSampleFails \/ BoardBuilt \/ Click \/ ClickFails

Spec == Init /\ [][Next]_vars

\* ------------------------------------------------------ the command line
\* A line the user types, as raw_input.split(" ") sees it: a sequence of
\* parts, each one a numeral int() accepts or a text int() rejects.
Num(n) == [int |-> TRUE, val |-> n]
NotNum == [int |-> FALSE, val |-> 0]

\* get_coord_to_open: the try block gets past the unpacking and both int()
Unpacks(entry) == Len(entry) = 2 /\ entry[1].int /\ entry[2].int

\* get_coord_to_open: what the two range checks print
Complaints(size, x, y) ==
    (IF x < 0 \/ x >= size THEN {"x is incorrect"} ELSE {})
        \cup (IF y < 0 \/ y >= size THEN {"y is incorrect"} ELSE {})

\* get_coord_to_open: the Coord returned for a line that unpacks
get_coord_to_open(size, entry) == Coord(entry[1].val, entry[2].val)

\* the lines tried at the prompt of a board of side size
Parts(size) == {Num(n) : n \in IndexArgs(size)} \cup {NotNum}
Entries(size) ==
    {<< a, b >> : a \in Parts(size), b \in Parts(size)}
        \cup {<< a >> : a \in Parts(size)}
        \cup {<< Num(0), Num(0), Num(0) >>}

\* main is at a prompt: before the Board is made, or in the game loop, which
\* asks once whatever the status and again while it is IN_GAME
AtFirstPrompt == phase = "new"
AtLoopPrompt ==
    /\ phase = "built"
    /\ raised = "none"
    /\ clicks = 0 \/ status = IN_GAME
    /\ clicks < MaxMainClicks

\* get_coord_to_open: the line raises in the try block, the loop asks again
BadLine(entry) ==
    /\ ~Unpacks(entry)
    /\ said' = {"Incorrect coordinates, try once again"}
    /\ UNCHANGED << phase, raised, width, height, status, cells_to_open, board, ctor,
                    clicks, handed, pc, queue, called >>

\* main fixes size = 8 and holes_num = 5; its flow is run here on the
\* accepted sizes up to MaxSize with up to MaxMainHoles holes
MainSizes == (SMALLEST_BOARD_SIZE + 1)..MaxSize
MainHoles == 0..MaxMainHoles

\* main: first_coord = get_coord_to_open(size), then Board(...) returns
MainStart ==
    /\ AtFirstPrompt
    /\ \E size \in MainSizes : \E holes_num \in MainHoles : \E entry \in Entries(size) :
          /\ Unpacks(entry)
          /\ handed' = get_coord_to_open(size, entry)
          /\ said' = Complaints(size, handed'.x, handed'.y)
          /\ Construct(size, holes_num, handed')
          /\ UNCHANGED loop

\* main: first_coord = get_coord_to_open(size), then Board(...) raises and
\* the program ends
MainStartRaises ==
    /\ AtFirstPrompt
    /\ \E size \in MainSizes : \E holes_num \in MainHoles : \E entry \in Entries(size) :
          /\ Unpacks(entry)
          /\ handed' = get_coord_to_open(size, entry)
          /\ said' = Complaints(size, handed'.x, handed'.y)
          /\ ConstructIndexError(size, holes_num, handed')
          /\ UNCHANGED loop

\* main: one turn of the game loop, click_on returns
MainTurn ==
    /\ AtLoopPrompt
    /\ \E entry \in Entries(width) :
          /\ Unpacks(entry)
          /\ handed' = get_coord_to_open(width, entry)
          /\ said' = Complaints(width, handed'.x, handed'.y)
          /\ ClickOn(handed')
          /\ UNCHANGED loop

\* main: one turn of the game loop, click_on raises and the program ends
MainTurnRaises ==
    /\ AtLoopPrompt
    /\ \E entry \in Entries(width) :
          /\ Unpacks(entry)
          /\ handed' = get_coord_to_open(width, entry)
          /\ said' = Complaints(width, handed'.x, handed'.y)
          /\ ClickOnRaises(handed')
          /\ UNCHANGED loop

\* main: a line that does not unpack, at either prompt
MainBadLine ==
    /\ AtFirstPrompt \/ AtLoopPrompt
    /\ \E entry \in Entries(MaxSize) : BadLine(entry)

NextMain == MainStart \/ MainStartRaises \/ MainTurn \/ MainTurnRaises \/ MainBadLine

SpecMain == Init /\ [][NextMain]_vars

\* ------------------------------------- _open_cells followed turn by turn
\* The same calls with the while loop of _open_cells taken one turn at a
\* time: phase is "init" while __init__ is inside its click on first_coord.

\* click_on(coord) on the Board b, for a coordinate Board.at accepts, up to
\* the while loop: a hole ends the call at once, else the deque is made
OpenCellsBegins(b, coord) ==
    IF b.board[at(b, coord)].is_hole
    THEN /\ SetSelf([b EXCEPT !.status = LOST])
         /\ UNCHANGED loop
    ELSE /\ SetSelf(b)
         /\ pc' = "loop"
         /\ queue' = << coord >>
         /\ called' = [b |-> b, coord |-> coord, popleft |-> TRUE]

\* Board(size, holes_num, HolesGenerator(size, holes_num), first_coord) builds
\* the board and calls click_on(first_coord)
ConstructBegins(size, holes_num, first_coord) ==
    /\ phase = "new"
    /\ ~SizeTooSmall(size)
    /\ ~TooManyHoles(size, holes_num)
    /\ ~SampleRaises(available_places(HolesGenerator(size, holes_num), first_coord), holes_num)
    /\ ~AtRaises([width |-> size, height |-> size], first_coord)
    /\ \E holes \in generate_holes(HolesGenerator(size, holes_num), first_coord) :
          \E fresh \in {NewBoard(size, holes_num, holes)} :
             OpenCellsBegins(fresh, first_coord)
    /\ phase' = IF pc' = "loop" THEN "init" ELSE "built"
    /\ raised' = "none"
    /\ ctor' = [size |-> size, holes_num |-> holes_num, first_coord |-> first_coord]
    /\ UNCHANGED clicks

\* board.click_on(coord) is called
ClickOnBegins(coord) ==
    /\ phase = "built"
    /\ pc = "idle"
    /\ ~AtRaises(Self, coord)
    /\ OpenCellsBegins(Self, coord)
    /\ raised' = "none"
    /\ clicks' = IF pc' = "loop" THEN clicks ELSE clicks + 1
    /\ UNCHANGED << phase, ctor >>

\* the queue without its i-th coordinate
Without(q, i) == SubSeq(q, 1, i - 1) \o SubSeq(q, i + 1, Len(q))

\* one turn of the while loop with queue.popleft() replaced by the removal of
\* the i-th coordinate of the queue: popleft is i = 1, a stack's pop is
\* i = Len(queue)
OpenCellsStepAt(s, i) ==
    OpenCellsStep([b |-> s.b, queue |-> << s.queue[i] >> \o Without(s.queue, i)])

\* one turn of the while loop that takes the i-th coordinate of the queue
OpenCellsTurnAt(i) ==
    /\ pc = "loop"
    /\ i \in 1..Len(queue)
    /\ \E s \in {OpenCellsStepAt([b |-> Self, queue |-> queue], i)} :
          /\ SetSelf(s.b)
          /\ queue' = s.queue
    /\ called' = [called EXCEPT !.popleft = @ /\ i = 1]
    /\ UNCHANGED << phase, raised, ctor, clicks, pc >>

\* one turn of the while loop as coded, with queue.popleft()
OpenCellsTurn ==
    /\ pc = "loop"
    /\ queue # << >>
    /\ \E s \in {OpenCellsStep([b |-> Self, queue |-> queue])} :
          /\ SetSelf(s.b)
          /\ queue' = s.queue
    /\ UNCHANGED << phase, raised, ctor, clicks, pc, called >>

\* the queue is empty: _open_cells and click_on return, and so does __init__
\* when the call was its own
OpenCellsReturns ==
    /\ pc = "loop"
    /\ queue = << >>
    /\ pc' = "idle"
    /\ called' = NoCall
    /\ phase' = "built"
    /\ clicks' = IF phase = "init" THEN clicks ELSE clicks + 1
    /\ UNCHANGED << raised, width, height, status, cells_to_open, board, ctor, queue >>

\* ------------------------------------------- the reveal in any order
\* A board is built as coded; then click_on calls are followed turn by turn,
\* each turn taking any coordinate of the queue.
MaxOrderClicks == 1

\* a turn is followed while it leaves at most this many coordinates in the queue
MaxOrderQueue == 4

OrderClick ==
    /\ clicks < MaxOrderClicks
    /\ \E coord \in ClickArgs : ClickOnBegins(coord)
    /\ UNCHANGED << handed, said >>

OrderTurn ==
    /\ \E i \in 1..Len(queue) : OpenCellsTurnAt(i)
    /\ Len(queue') <= MaxOrderQueue
    /\ UNCHANGED << handed, said >>

OrderReturn ==
    /\ OpenCellsReturns
    /\ UNCHANGED << handed, said >>

NextOrder == BoardBuilt \/ OrderClick \/ OrderTurn \/ OrderReturn

SpecOrder == Init /\ [][NextOrder]_vars

\* ------------------------------------------- the reveal as coded, by turns
\* Construction and click_on calls with the while loop of _open_cells taken
\* one turn at a time, each turn with queue.popleft().
MaxRevealClicks == 1

RevealBuild ==
    \E size \in SizeArgs : \E first_coord \in FirstArgs(size) :
       /\ phase = "new"
       /\ \E holes_num \in HolesArgs(size) : ConstructBegins(size, holes_num, first_coord)
       /\ UNCHANGED << handed, said >>

RevealClick ==
    /\ clicks < MaxRevealClicks
    /\ \E coord \in ClickArgs : ClickOnBegins(coord)
    /\ UNCHANGED << handed, said >>

RevealTurn ==
    /\ OpenCellsTurn
    /\ UNCHANGED << handed, said >>

RevealReturn ==
    /\ OpenCellsReturns
    /\ UNCHANGED << handed, said >>

NextReveal == RevealBuild \/ RevealClick \/ RevealTurn \/ RevealReturn

SpecReveal == Init /\ [][NextReveal]_vars

\* the loop is sequential code: while it can take a turn or return, it does
SpecRevealFair ==
    SpecReveal /\ WF_vars(RevealTurn) /\ WF_vars(RevealReturn)

\* ------------------------------------------------- vocabulary of the claims
Terminal == {LOST, WIN}

Cells == DOMAIN board
Holes == {c \in Cells : board[c].is_hole}
Opened == {c \in Cells : board[c].is_opened}

\* every non-hole cell is opened
AllSafeOpened == \A c \in Cells : ~board[c].is_hole => board[c].is_opened

\* __init__ has just returned a Board
JustBuilt == phase = "built" /\ clicks = 0

\* a click_on call on a coordinate of the board that returns
InBoundsClick == \E coord \in CoordsOf(width, height) : ClickOn(coord)

\* a click_on call on a hole of the board
HoleClick == \E coord \in Holes : ClickOn(coord)

\* a click_on call that returns: its coordinate is one Board.at accepts, on
\* the board or reaching it by a negative index
ClickReturned == phase = "built" /\ clicks' = clicks + 1 /\ raised' = "none"

\* a click_on call on a coordinate outside the board
OutOfBoundsClick ==
    \E coord \in ClickArgs \ CoordsOf(width, height) : ClickOn(coord) \/ ClickOnRaises(coord)

\* the 8 neighbours of c on the board, by distance
Around(c) ==
    {d \in Cells : d # c /\ d.x - c.x \in -1..1 /\ d.y - c.y \in -1..1}

\* ------------------------------------------------------------------ claims
\* C1: once status is LOST or WIN, no click_on on an in-bounds coordinate
\* changes status.
C1_StatusAbsorbing ==
    [][(status \in Terminal /\ InBoundsClick) => status' = status]_vars

\* C2: a click_on on an in-bounds coordinate of a finished game (status LOST or
\* WIN) changes no cell's is_opened and leaves cells_to_open as it was.
C2_NoOpAfterEnd ==
    [][(status \in Terminal /\ InBoundsClick)
          => (Opened' = Opened /\ cells_to_open' = cells_to_open)]_vars

\* C3 as stated: right after a valid construction status is IN_GAME and the
\* cell at first_coord is opened.
C3_FirstClickInGame ==
    JustBuilt => (status = IN_GAME /\ board[ctor.first_coord].is_opened)

\* C3 amended: right after a valid construction status is IN_GAME or WIN, never
\* LOST, WIN exactly when the first click opened every non-hole cell, and the
\* cell at first_coord is opened.
C3_FirstClickSafe ==
    JustBuilt =>
        /\ status \in {IN_GAME, WIN}
        /\ status = WIN <=> AllSafeOpened
        /\ board[ctor.first_coord].is_opened

\* C3 witness: a board with holes was built, the first click opened several
\* cells and the game goes on.
C3_Witness ==
    /\ JustBuilt
    /\ status = IN_GAME
    /\ Holes # {}
    /\ Cardinality(Opened) > 1

\* C4: every Coord get_coord_to_open(size) returns, which main hands to the
\* Board constructor or to click_on, has 0 <= x < size and 0 <= y < size.
C4_InputInBounds ==
    handed # NoCoord => handed \in CoordsOf(ctor.size, ctor.size)

\* C5: a click_on on an out-of-bounds coordinate ends in an error and changes
\* no cell's is_opened, nor cells_to_open, nor status.
C5_OutOfBoundsFails ==
    [][OutOfBoundsClick =>
          /\ raised' = "IndexError"
          /\ Opened' = Opened
          /\ cells_to_open' = cells_to_open
          /\ status' = status]_vars

\* C6: after the first click made by construction, and after every click_on
\* made while IN_GAME that returns (so after every one on an in-bounds
\* coordinate), status is WIN iff every non-hole cell is opened, which is iff
\* cells_to_open is 0; and status is never WIN while a non-hole cell is
\* unopened.
WinIffAllOpened ==
    /\ status = WIN <=> AllSafeOpened
    /\ AllSafeOpened <=> cells_to_open = 0

C6_WinCondition ==
    /\ [](JustBuilt => WinIffAllOpened)
    /\ [][(status = IN_GAME /\ ClickReturned) => WinIffAllOpened']_vars
    /\ [](status = WIN => AllSafeOpened)

\* C6 witness: the first click opened one numbered cell only, and the one
\* click_on after it, made while IN_GAME, opened all the rest and won.
C6_Witness ==
    /\ phase = "built"
    /\ clicks = 1
    /\ raised = "none"
    /\ board[ctor.first_coord].holes_around > 0
    /\ Holes # {}
    /\ status = WIN
    /\ cells_to_open = 0

\* C7: a click_on on a hole while IN_GAME sets status to LOST and changes
\* nothing else: no is_opened flag, not cells_to_open, no other field.
C7_HoleClickLoses ==
    [][(status = IN_GAME /\ HoleClick)
          => (status' = LOST /\ board' = board /\ cells_to_open' = cells_to_open
              /\ width' = width /\ height' = height)]_vars

\* C7 witness: one click_on was made, in a game the construction left IN_GAME
\* (cells are still to open), and it lost the game.
C7_Witness ==
    /\ phase = "built"
    /\ clicks = 1
    /\ raised = "none"
    /\ status = LOST
    /\ cells_to_open > 0

C9_HolesPlaced ==
    /\ (/\ ctor # NoArgs
        /\ ctor.size > 3
        /\ 0 <= ctor.holes_num
        /\ ctor.holes_num < ctor.size * ctor.size - 9
        /\ ctor.first_coord \in CoordsOf(ctor.size, ctor.size))
          => phase = "built"
    /\ phase = "built" =>
          /\ Cardinality(Holes) = ctor.holes_num
          /\ Holes \subseteq CoordsOf(ctor.size, ctor.size)
          /\ ~board[ctor.first_coord].is_hole

\* C9 witness: a board with two or more holes was built.
C9_Witness ==
    /\ phase = "built"
    /\ ctor.holes_num >= 2
    /\ Cardinality(Holes) = ctor.holes_num

\* C10: in every state after construction each non-hole cell's holes_around is
\* the number of holes among its in-bounds neighbours (no wrap-around), and
\* each hole cell's holes_around is 0.
C10_AdjacencyExact ==
    phase = "built" =>
        \A c \in Cells :
            board[c].holes_around =
                IF board[c].is_hole THEN 0
                ELSE Cardinality({d \in Around(c) : board[d].is_hole})

\* C10 witness: after a click_on, some cell counts two holes, and a hole lies
\* on the right edge while the cell of its row on the left edge counts none.
C10_Witness ==
    /\ phase = "built"
    /\ clicks >= 1
    /\ \E c \in Cells : board[c].holes_around = 2
    /\ \E h \in Holes : h.x = width - 1 /\ board[Coord(0, h.y)].holes_around = 0

\* the non-hole cells of the board that are opened
OpenedSafe == {c \in Cells : board[c].is_opened /\ ~board[c].is_hole}

\* a click_on call on an in-bounds, non-hole coordinate whose cell is opened
OpenedSafeClick == \E coord \in OpenedSafe : ClickOn(coord)

\* C11: a click_on on an in-bounds, non-hole coordinate whose cell is already
\* opened changes neither cells_to_open nor status.
C11_OpenedClickIdempotent ==
    [][OpenedSafeClick => (cells_to_open' = cells_to_open /\ status' = status)]_vars

\* the while loop of the running _open_cells has emptied its queue
LoopEnded == pc = "loop" /\ queue = << >>

\* the cells the running _open_cells has opened
OpenedByCall == {c \in Cells : board[c].is_opened /\ ~called.b.board[c].is_opened}

\* C12: whatever coordinate each turn takes from the queue (the leftmost as
\* coded, the rightmost as a stack, or any other), the reveal ends with the
\* Board that the coded reveal, with popleft, makes of the same board and the
\* same start coordinate: the same opened cells, cells_to_open and status.
C12_OrderIndependent ==
    LoopEnded => Self = click_on(called.b, called.coord)

\* C12 witness: a reveal that did not always take the leftmost coordinate has
\* ended after opening four cells or more.
C12_Witness ==
    /\ LoopEnded
    /\ ~called.popleft
    /\ Cardinality(OpenedByCall) >= 4

\* a Board exists: __init__ is inside its first click, or has returned
BoardExists == phase \in {"init", "built"}

\* the non-hole cells that are not opened
ClosedSafe == {c \in Cells : ~board[c].is_hole /\ ~board[c].is_opened}

\* C13: cells_to_open starts at size*size - holes_num; in every state of a
\* construction and of the click_on calls after it, between any two turns of
\* the reveal too, it is the number of non-hole cells that are not opened and
\* is not negative; every step lowers it by the number of cells the step
\* opens, so by nothing when the cell dequeued is opened already.
C13_CounterExact ==
    /\ []((phase = "init" /\ Opened = {}) =>
             cells_to_open = ctor.size * ctor.size - ctor.holes_num)
    /\ [](BoardExists => (cells_to_open = Cardinality(ClosedSafe) /\ cells_to_open >= 0))
    /\ [][BoardExists =>
             /\ Opened \subseteq Opened'
             /\ cells_to_open - cells_to_open' = Cardinality(Opened' \ Opened)]_vars

\* C13 witness: inside the reveal of a click_on, cells are opened, cells are
\* left to open, and the queue holds a coordinate whose cell is opened already.
C13_Witness ==
    /\ phase = "built"
    /\ pc = "loop"
    /\ OpenedByCall # {}
    /\ cells_to_open > 0
    /\ \E i \in 1..Len(queue) : board[at(Self, queue[i])].is_opened

\* C14: every reveal terminates: once a call is inside the while loop of
\* _open_cells, the queue empties and the call returns.
C14_RevealTerminates == (pc = "loop") ~> (pc = "idle")

\* C14 witness: the reveal of a click_on has emptied its queue after opening
\* six cells or more, so after dequeuing coordinates that were enqueued
\* several times.
C14_Witness ==
    /\ phase = "built"
    /\ LoopEnded
    /\ Cardinality(OpenedByCall) >= 6

\* C15: during any reveal the queue never holds more coordinates than the
\* board has cells.
C15_QueueBounded == pc = "loop" => Len(queue) <= width * height

RECURSIVE Reach(_)
\* the cells a path of neighbour steps reaches from the set R when every cell
\* of the path before its last one has holes_around = 0
Reach(R) ==
    LET more == R \cup UNION {Around(z) : z \in {c \in R : board[c].holes_around = 0}}
    IN  IF more = R THEN R ELSE Reach(more)

\* the region of the coordinate c
Region(c) == Reach({c})

\* C16: a click_on on an in-bounds non-hole coordinate c in state IN_GAME
\* leaves opened the cells opened before and the region of c, no others, and
\* changes no is_hole and no holes_around.
C16_OpensRegion ==
    [][\A c \in Cells \ Holes :
          (status = IN_GAME /\ ClickOn(c)) =>
             /\ Opened' = Opened \cup Region(c)
             /\ \A d \in Cells :
                   /\ board'[d].is_hole = board[d].is_hole
                   /\ board'[d].holes_around = board[d].holes_around]_vars

\* C17: in every state after construction, whatever click_on calls were made
\* (on holes and after the game ended too), no hole cell is opened.
C17_HolesStayClosed ==
    phase = "built" => \A c \in Cells : board[c].is_hole => ~board[c].is_opened

\* C17 witness: two click_on calls were made on a board with holes, cells were
\* opened and a hole was clicked.
C17_Witness ==
    /\ phase = "built"
    /\ clicks = 2
    /\ raised = "none"
    /\ status = LOST
    /\ Cardinality(Holes) = 2
    /\ Cardinality(Opened) >= 4

\* every opened cell with holes_around = 0 has all its neighbours opened
Closure ==
    \A c \in Cells :
        (board[c].is_opened /\ board[c].holes_around = 0) =>
            \A d \in Around(c) : board[d].is_opened

\* C18: when construction has returned, and when a click_on on an in-bounds
\* coordinate has returned, every opened cell with holes_around = 0 has all of
\* its in-bounds neighbours opened; and a click_on on an opened non-hole cell
\* changes no cell's is_opened.
C18_OpenedRegionClosed ==
    /\ [](JustBuilt => Closure)
    /\ [][InBoundsClick => Closure']_vars
    /\ [][OpenedSafeClick => Opened' = Opened]_vars

\* what construction lays out: each cell's is_hole and holes_around
Layout == [c \in Cells |-> << board[c].is_hole, board[c].holes_around >>]

\* C19: after construction no click_on call, returning or raising, changes a
\* cell's is_hole or holes_around, the set of cells, width or height.
C19_LayoutFixed ==
    [][phase = "built" => (Layout' = Layout /\ width' = width /\ height' = height)]_vars

\* C19 witness: two click_on calls on a board with two holes have opened cells
\* beyond the first one, and the game goes on.
C19_Witness ==
    /\ phase = "built"
    /\ clicks = 2
    /\ raised = "none"
    /\ status = IN_GAME
    /\ Cardinality(Holes) = 2
    /\ Cardinality(Opened) >= 3
    /\ ~board[ctor.first_coord].is_hole
    /\ board[ctor.first_coord].holes_around > 0

=============================================================================
